---- MODULE Spec2Model ----
(***************************************************************************)
(* Gesture & command fusion engine of GESTAR: App.handleVoiceCommand, the  *)
(* GestureModel effects and its per-frame callback (useFrame), and the     *)
(* hand-frame path from HandTracker to the scene.                          *)
(*                                                                         *)
(* Numbers are fixed point, one unit = 1/1000: landmark coordinates,       *)
(* distances, positions, scales are in thousandths, angles in milliradians.*)
(* Time is counted in quarter seconds (one render tick = one unit).        *)
(***************************************************************************)
EXTENDS Integers, Sequences, FiniteSets, TLC

\* ------------------------------------------------------------------------
\* Bounds of the model
\* ------------------------------------------------------------------------
MaxClock == 2
MaxGestureClock == 3
MaxMessages == 2
MaxCalls == 2
MaxScaleMessages == 4
MaxScaleClock == 1
MaxClockOffset == 1
MaxUploads == 1
MaxGestureMessages == 1
MaxSmoothClock == 54
MaxRenderClock == 15
MaxBounceClock == 6
MaxLoads == 2

MaxRequests == 3

\* ------------------------------------------------------------------------
\* IEEE-754 arithmetic as far as the engine uses it.  NaN is a value of its
\* own: every operation on it yields NaN and every comparison with it is
\* false.
\* ------------------------------------------------------------------------
NaN == -1000000000

IsNaN(a) == a = NaN

FAdd(a, b) == IF IsNaN(a) \/ IsNaN(b) THEN NaN ELSE a + b

FSub(a, b) == IF IsNaN(a) \/ IsNaN(b) THEN NaN ELSE a - b

\* truncating division (toward zero), so that scaling is symmetric in sign
TruncDiv(n, d) == IF n >= 0 THEN n \div d ELSE -((-n) \div d)

\* a * (num/den) for a constant factor num/den
FScale(a, num, den) == IF IsNaN(a) THEN NaN ELSE TruncDiv(a * num, den)

\* a * b of two fixed-point numbers
FMul(a, b) == IF IsNaN(a) \/ IsNaN(b) THEN NaN ELSE TruncDiv(a * b, 1000)

FLt(a, b) == ~IsNaN(a) /\ ~IsNaN(b) /\ a < b

FGt(a, b) == ~IsNaN(a) /\ ~IsNaN(b) /\ a > b

FAbs(a) == IF IsNaN(a) THEN NaN ELSE IF a < 0 THEN -a ELSE a

\* Math.max / Math.min: NaN if either argument is NaN
MathMax(a, b) == IF IsNaN(a) \/ IsNaN(b) THEN NaN ELSE IF a > b THEN a ELSE b

MathMin(a, b) == IF IsNaN(a) \/ IsNaN(b) THEN NaN ELSE IF a < b THEN a ELSE b

RECURSIVE SqrtSearch(_, _, _)
SqrtSearch(n, lo, hi) ==
  IF lo >= hi THEN lo
  ELSE LET mid == (lo + hi + 1) \div 2
       IN IF mid * mid <= n THEN SqrtSearch(n, mid, hi)
                            ELSE SqrtSearch(n, lo, mid - 1)

\* Math.sqrt(Math.pow(dx, 2) + Math.pow(dy, 2)) of two coordinate differences
Hypot(dx, dy) ==
  IF IsNaN(dx) \/ IsNaN(dy) THEN NaN
  ELSE SqrtSearch(dx * dx + dy * dy, 0, 2000)

PI == 3142

TwoPI == 6284

\* Math.atan2(y, x) in milliradians (octant reduction and a quadratic fit of
\* atan on [0, 1])
MathAtan2(y, x) ==
  IF IsNaN(y) \/ IsNaN(x) THEN NaN
  ELSE IF x = 0 /\ y = 0 THEN 0
  ELSE LET ax == IF x < 0 THEN -x ELSE x
           ay == IF y < 0 THEN -y ELSE y
           lo == IF ax < ay THEN ax ELSE ay
           hi == IF ax < ay THEN ay ELSE ax
           z  == (lo * 1000) \div hi
           r0 == (785 * z) \div 1000 + (273 * z * (1000 - z)) \div 1000000
           r1 == IF ay > ax THEN (PI \div 2) - r0 ELSE r0
           r2 == IF x < 0 THEN PI - r1 ELSE r1
       IN IF y < 0 THEN -r2 ELSE r2

\* (mutation) the angle difference taken as it is
NormalizeAngleRaw(d) == d

\* Math.atan2(Math.sin(d), Math.cos(d)): d brought into [-PI, PI]
NormalizeAngle(d) ==
  IF IsNaN(d) THEN NaN
  ELSE LET m == (d + PI) % TwoPI
       IN IF m = 0 /\ d > 0 THEN PI ELSE m - PI

\* (mutation) a step of the same size away from y
LerpAway(x, y, t) == FSub(x, FScale(FSub(y, x), t, 100))

\* THREE.MathUtils.lerp(x, y, t) = x + (y - x) * t, t given in hundredths
Lerp(x, y, t) == FAdd(x, FScale(FSub(y, x), t, 100))

\* ------------------------------------------------------------------------
\* Strings of a command value: sequences of characters, so that
\* toLowerCase() and includes() are computed and not assumed.
\* ------------------------------------------------------------------------
Undefined == <<"undefined">>

Upper == <<"A","B","C","D","E","F","G","H","I","J","K","L","M",
           "N","O","P","Q","R","S","T","U","V","W","X","Y","Z">>

Lower == <<"a","b","c","d","e","f","g","h","i","j","k","l","m",
           "n","o","p","q","r","s","t","u","v","w","x","y","z">>

LowerChar(c) ==
  IF \E i \in 1..26 : Upper[i] = c
  THEN Lower[CHOOSE i \in 1..26 : Upper[i] = c]
  ELSE c

\* a conversion that keeps the case of every character
ToLowerCaseKeepsCase(s) == s

\* String.prototype.toLowerCase on the letters A..Z
ToLowerCase(s) == [i \in 1..Len(s) |-> LowerChar(s[i])]

Includes(s, kw) ==
  \E i \in 0..(Len(s) - Len(kw)) : SubSeq(s, i + 1, i + Len(kw)) = kw

\* value?.toLowerCase().includes(kw): undefined (falsy) when value is absent
ValueIncludes(value, kw) ==
  /\ value # Undefined
  /\ Includes(ToLowerCase(value), kw)

\* ------------------------------------------------------------------------
\* Hand frames.  A landmark is [x, y] (z is never read by the engine); a hand
\* is the sequence of its landmarks (JavaScript index i is element i + 1);
\* a frame (HandData.landmarks) is the sequence of hands.
\* ------------------------------------------------------------------------
Pt(x, y) == [x |-> x, y |-> y]

Off(p, dx, dy) == Pt(FAdd(p.x, dx), FAdd(p.y, dy))

\* the 21 landmarks of a hand from the ones the engine reads: wrist (0),
\* thumb tip (4), index pip and tip (6, 8), middle base, pip and tip
\* (9, 10, 12), ring pip and tip (14, 16), pinky tip (20)
MkHand(wrist, thumbTip, indexPip, indexTip, middleBase, middlePip, middleTip, ringPip, ringTip, pinkyTip) ==
  [i \in 1..21 |->
     CASE i = 1  -> wrist
       [] i = 5  -> thumbTip
       [] i = 7  -> indexPip
       [] i = 9  -> indexTip
       [] i = 10 -> middleBase
       [] i = 11 -> middlePip
       [] i = 13 -> middleTip
       [] i = 15 -> ringPip
       [] i = 17 -> ringTip
       [] i = 21 -> pinkyTip
       [] OTHER  -> middleBase]

\* relaxed hand: fingers half curled, no pinch, not pointing
NeutralHand(mb) ==
  MkHand(Off(mb, 0, 200), Off(mb, -150, 0), Off(mb, 0, -100), Off(mb, 0, -200),
         mb, Off(mb, 0, -100), Off(mb, 0, -200), Off(mb, 0, -100),
         Off(mb, 0, -200), Off(mb, 0, -200))

\* closed fist: all four finger tips within 0.05 of the middle-finger base
FistHand(mb) ==
  MkHand(Off(mb, 0, 200), Off(mb, -100, 0), Off(mb, 0, -50), Off(mb, 0, 50),
         mb, Off(mb, 0, -50), Off(mb, 0, 50), Off(mb, 0, -50),
         Off(mb, 0, 50), Off(mb, 0, 50))

\* open palm: finger tips 0.4 away from the middle-finger base
OpenHand(mb) ==
  MkHand(Off(mb, 0, 200), Off(mb, -200, 0), Off(mb, 0, -200), Off(mb, 0, -400),
         mb, Off(mb, 0, -200), Off(mb, 0, -400), Off(mb, 0, -200),
         Off(mb, 0, -400), Off(mb, 0, -400))

\* pinch: thumb tip on the index tip; the wrist is 0.2 to the side of the base
PinchHand(mb) ==
  MkHand(Off(mb, 200, 200), Off(mb, 0, -200), Off(mb, 0, -100), Off(mb, 0, -200),
         mb, Off(mb, 0, -100), Off(mb, 0, -200), Off(mb, 0, -100),
         Off(mb, 0, -200), Off(mb, 0, -200))

\* open palm whose thumb touches the index tip
OpenPinchHand(mb) ==
  MkHand(Off(mb, 200, 200), Off(mb, 0, -400), Off(mb, 0, -200), Off(mb, 0, -400),
         mb, Off(mb, 0, -200), Off(mb, 0, -400), Off(mb, 0, -200),
         Off(mb, 0, -400), Off(mb, 0, -400))

\* pointing: index tip at (ex, ey) from the base and above its pip, middle
\* and ring tips below their pips
PointingHand(mb, ex, ey) ==
  MkHand(Off(mb, 0, 200), Off(mb, -150, 0), Off(mb, 0, 50), Off(mb, ex, ey),
         mb, Off(mb, 0, -50), Off(mb, 0, 50), Off(mb, 0, -50),
         Off(mb, 0, 50), Off(mb, 0, 100))

\* pointing with the other fingers far from the base (classifies as open)
OpenPointingHand(mb) ==
  MkHand(Off(mb, 0, 200), Off(mb, -150, 0), Off(mb, 0, 50), Off(mb, 100, -450),
         mb, Off(mb, 0, 0), Off(mb, 0, 400), Off(mb, 0, 0),
         Off(mb, 0, 400), Off(mb, 0, 400))

Centre == Pt(500, 500)

\* the base of the pinch of the scenario: (0.5 - 0.25) * 12 = 3
PinchBase == Pt(250, 417)

OneHandFrames ==
  { <<NeutralHand(Centre)>>,
    <<FistHand(Centre)>>,
    <<PinchHand(PinchBase)>>,
    <<PointingHand(Centre, 0, -300)>>,
    <<PointingHand(Centre, 150, -260)>> }

\* both hands open (two-hand recenter), the primary one also pinching or
\* pointing
TwoHandOpenFrames ==
  { <<OpenHand(Pt(300, 500)), OpenHand(Pt(700, 500))>>,
    <<OpenPinchHand(PinchBase), OpenHand(Pt(700, 500))>>,
    <<OpenPointingHand(Centre), OpenHand(Pt(800, 500))>> }

\* two hands, not both open (two-hand zoom), at separations 0.3, 0 and 0.9
TwoHandZoomFrames ==
  { <<NeutralHand(Pt(300, 500)), NeutralHand(Pt(600, 500))>>,
    <<NeutralHand(Centre), NeutralHand(Centre)>>,
    <<OpenHand(Pt(50, 500)), NeutralHand(Pt(950, 500))>> }

TwoHandFrames == TwoHandOpenFrames \cup TwoHandZoomFrames

WellFormedFrames == OneHandFrames \cup TwoHandFrames

\* malformed frames: a hand with fewer than 21 landmarks, a NaN coordinate
ShortHand(n) == SubSeq(NeutralHand(Centre), 1, n)

NaNBaseHand(h) == [h EXCEPT ![10] = Pt(NaN, h[10].y)]

MalformedFrames ==
  { <<ShortHand(5)>>,
    <<NeutralHand(Centre), ShortHand(5)>>,
    <<NaNBaseHand(PinchHand(PinchBase))>>,
    <<NeutralHand(Centre), NaNBaseHand(NeutralHand(Pt(700, 500)))>> }

NoHandData == [present |-> FALSE, landmarks |-> <<>>]

HandDataOf(frame) == [present |-> TRUE, landmarks |-> frame]

\* ------------------------------------------------------------------------
\* State
\* ------------------------------------------------------------------------
VARIABLES
  file,              \* App: 0 = null, else the number of the uploaded asset
  handData,          \* App: last frame given to onHandUpdate
  isTrackerActive,   \* App
  voiceTransform,    \* App: the VoiceTransform of the last render
  queuedTransform,   \* App: voiceTransform with the queued updaters applied
  targetPos,         \* GestureModel refs
  targetRot,
  targetScale,
  isBouncing,
  bounceStartTime,
  lastFistState,
  lastDetectedAngle,
  meshPosition,      \* meshRef.current
  meshRotation,
  meshScale,
  clock,             \* state.clock.elapsedTime, quarter seconds
  clockOffset,       \* performance.now() / 1000 - state.clock.elapsedTime
  msgCount,          \* tool-call messages handled so far
  isVoiceActive,     \* App
  sessionRef,        \* VoiceController: sessionRef.current is a live session
  pendingConnects,   \* ai.live.connect calls that have not resolved yet
  openSessions,      \* live sessions that are open
  inFlight,          \* calls of a message received but not yet handled
  effectDeps,        \* GestureModel: the voiceTransform its effects last ran for
  insight,           \* App: the request whose response is displayed, and
                     \* whether it was answered (ok) or failed
  isLoadingInsight,  \* App
  outstanding,       \* getSpatialInsight calls that have not returned yet
  issued,            \* fetchInsight calls so far
  modulesLoaded,     \* window.Hands and window.Camera are defined
  attempts,          \* HandTracker effect: attempts
  retryPending,      \* HandTracker effect: the timeout of checkInterval is set
  handsRef,          \* HandTracker: a tracker and its camera are running
  trackerError,      \* HandTracker: error is not null
  frameOut,          \* what the last useFrame call computed on its way
  last               \* history: the last event

vars == <<file, handData, isTrackerActive, voiceTransform, queuedTransform,
          targetPos, targetRot, targetScale, isBouncing, bounceStartTime,
          lastFistState, lastDetectedAngle, meshPosition, meshRotation,
          meshScale, clock, clockOffset, msgCount, isVoiceActive, sessionRef,
          pendingConnects, openSessions, inFlight, effectDeps, insight,
          isLoadingInsight, outstanding, issued, modulesLoaded, attempts,
          retryPending, handsRef, trackerError, frameOut, last>>

appVars == <<file, handData, isTrackerActive, voiceTransform, queuedTransform>>

refVars == <<targetPos, targetRot, targetScale, isBouncing, bounceStartTime,
             lastFistState, lastDetectedAngle>>

meshVars == <<meshPosition, meshRotation, meshScale>>

voiceVars == <<isVoiceActive, sessionRef, pendingConnects, openSessions,
               inFlight>>

insightVars == <<insight, isLoadingInsight, outstanding, issued>>

trackerVars == <<modulesLoaded, attempts, retryPending, handsRef,
                 trackerError>>

Vec(x, y, z) == [x |-> x, y |-> y, z |-> z]

NullColor == <<"null">>

White == <<"w","h","i","t","e">>

\* useState<VoiceTransform>({...}) of App
InitialVoiceTransform ==
  [scale |-> 1000, color |-> NullColor, bounceTrigger |-> 0,
   resetTrigger |-> 0, rotationVelocity |-> 0]

NoFrameOut ==
  [currentBounceY |-> 0, currentBounceScale |-> 0, threw |-> FALSE,
   fistFired |-> FALSE, pointed |-> FALSE]

\* an event of the history: its kind; for a message its calls, and whether
\* no earlier updater was queued when it arrived (fresh); a render, and a tick
\* that directly follows a render, carry the calls the render committed
Ev(kind, calls, fresh) == [kind |-> kind, calls |-> calls, fresh |-> fresh]

Carried(kinds) ==
  IF last.kind \in kinds THEN [calls |-> last.calls, fresh |-> last.fresh]
                         ELSE [calls |-> <<>>, fresh |-> FALSE]

\* Date.now() (positive) and performance.now() / 1000
DateNow == clock + 1

PerformanceNow == clock + clockOffset

\* useState('') of insight
NoInsight == [req |-> 0, ok |-> TRUE]

InitApp ==
  /\ file = 0
  /\ handData = NoHandData
  /\ isTrackerActive = FALSE
  /\ voiceTransform = InitialVoiceTransform
  /\ queuedTransform = InitialVoiceTransform
  /\ targetPos = Vec(0, 0, 0)
  /\ targetRot = Vec(0, 0, 0)
  /\ targetScale = 1000
  /\ isBouncing = FALSE
  /\ bounceStartTime = 0
  /\ lastFistState = FALSE
  /\ lastDetectedAngle = 0
  /\ meshPosition = Vec(0, 0, 0)
  /\ meshRotation = Vec(0, 0, 0)
  /\ meshScale = 1000
  /\ clock = 0
  /\ clockOffset \in 1..MaxClockOffset
  /\ msgCount = 0
  /\ isVoiceActive = FALSE
  /\ sessionRef = FALSE
  /\ pendingConnects = 0
  /\ openSessions = 0
  /\ inFlight = <<>>
  /\ effectDeps = InitialVoiceTransform
  /\ insight = NoInsight
  /\ isLoadingInsight = FALSE
  /\ outstanding = {}
  /\ issued = 0
  /\ attempts = 0
  /\ retryPending = FALSE
  /\ handsRef = FALSE
  /\ trackerError = FALSE
  /\ frameOut = NoFrameOut
  /\ last = Ev("init", <<>>, FALSE)

\* the page with the vision scripts loaded
Init == InitApp /\ modulesLoaded = TRUE

\* the page with the vision scripts not loaded yet
InitMissing == InitApp /\ modulesLoaded = FALSE

\* ------------------------------------------------------------------------
\* App.handleVoiceCommand
\* ------------------------------------------------------------------------
Cmd(action, value) == [action |-> action, value |-> value]

\* the updater one call of handleVoiceCommand queues, applied to the queued
\* state prev; vt is the voiceTransform the handler's closure was rendered
\* with, now is Date.now()
HandleVoiceCommand(vt, prev, cmd, now) ==
  CASE cmd.action = "scale" ->
         LET currentScale == vt.scale
             isBigger == \/ ValueIncludes(cmd.value, <<"b","i","g">>)
                         \/ ValueIncludes(cmd.value, <<"l","a","r","g","e","r">>)
                         \/ ValueIncludes(cmd.value, <<"u","p">>)
                         \/ ValueIncludes(cmd.value, <<"m","o","r","e">>)
             newScale == IF isBigger THEN FScale(currentScale, 15, 10)
                                     ELSE FScale(currentScale, 7, 10)
         IN [prev EXCEPT !.scale = MathMax(100, MathMin(5000, newScale))]
    [] cmd.action = "color" ->
         [prev EXCEPT !.color = IF cmd.value = Undefined \/ cmd.value = <<>>
                                THEN White ELSE cmd.value]
    [] cmd.action = "bounce" ->
         [prev EXCEPT !.bounceTrigger = now]
    [] cmd.action = "recenter" ->
         [prev EXCEPT !.scale = 1000, !.color = NullColor,
                      !.resetTrigger = now, !.rotationVelocity = 0]
    [] cmd.action = "rotate" ->
         LET isFast == \/ ValueIncludes(cmd.value, <<"f","a","s","t">>)
                       \/ ValueIncludes(cmd.value, <<"q","u","i","c","k">>)
             isStop == \/ ValueIncludes(cmd.value, <<"s","t","o","p">>)
                       \/ ValueIncludes(cmd.value, <<"n","o","n","e">>)
         IN [prev EXCEPT !.rotationVelocity =
                           IF isStop THEN 0 ELSE IF isFast THEN 100 ELSE 30]
    [] OTHER -> prev

\* the calls of one tool-call message, handled one after the other by the
\* same handler (no render in between)
\* the actions handleVoiceCommand has a case for
HandledActions == {"scale", "color", "bounce", "recenter", "rotate"}

\* (mutation) a call with an action outside the handled ones recorded as a
\* reset
RECURSIVE HandleCallsUnknownResets(_, _, _, _)
HandleCallsUnknownResets(vt, prev, calls, now) ==
  IF calls = <<>> THEN prev
  ELSE HandleCallsUnknownResets(vt,
         IF Head(calls).action \in HandledActions
         THEN HandleVoiceCommand(vt, prev, Head(calls), now)
         ELSE [prev EXCEPT !.scale = 1000, !.resetTrigger = now],
         Tail(calls), now)

RECURSIVE HandleCalls(_, _, _, _)
HandleCalls(vt, prev, calls, now) ==
  IF calls = <<>> THEN prev
  ELSE HandleCalls(vt, HandleVoiceCommand(vt, prev, Head(calls), now),
                   Tail(calls), now)

Bigger == Cmd("scale", <<"B","i","g","g","e","r">>)

Smaller == Cmd("scale", <<"s","m","a","l","l","e","r">>)

Recenter == Cmd("recenter", Undefined)

Bounce == Cmd("bounce", Undefined)

ScaleCommands == { Bigger, Smaller, Recenter }

AllCommands ==
  ScaleCommands \cup
  { Bounce,
    Cmd("color", <<"r","e","d">>),
    Cmd("color", Undefined),
    Cmd("rotate", Undefined),
    Cmd("rotate", <<"f","a","s","t">>),
    Cmd("rotate", <<"s","t","o","p">>),
    Cmd("move", <<"l","e","f","t">>) }

CallLists(cmds) ==
  UNION { [1..n -> cmds] : n \in 1..MaxCalls }

\* onmessage with a toolCall: every function call is passed to onCommand
VoiceMessage(cmds, maxMessages) ==
  /\ openSessions > 0
  /\ inFlight = <<>>
  /\ msgCount < maxMessages
  /\ \E calls \in CallLists(cmds) :
       /\ queuedTransform' =
            HandleCalls(voiceTransform, queuedTransform, calls, DateNow)
       /\ last' = Ev("message", calls, queuedTransform = voiceTransform)
  /\ msgCount' = msgCount + 1
  /\ UNCHANGED <<file, handData, isTrackerActive, voiceTransform, refVars,
                 meshVars, clock, clockOffset, frameOut,
                 effectDeps, voiceVars,
                 insightVars, trackerVars>>

\* the live client hands a received message to onmessage asynchronously:
\* the message is taken off an open session here ...
ReceiveMessage(cmds, maxMessages) ==
  /\ openSessions > 0
  /\ inFlight = <<>>
  /\ msgCount < maxMessages
  /\ \E calls \in CallLists(cmds) : inFlight' = calls
  /\ last' = Ev("receive", <<>>, FALSE)
  /\ UNCHANGED <<file, handData, isTrackerActive, voiceTransform,
                 queuedTransform, refVars, meshVars, clock, clockOffset,
                 msgCount, isVoiceActive, sessionRef, pendingConnects,
                 openSessions, frameOut, effectDeps,
                 insightVars, trackerVars>>

\* ... and onmessage runs on it later, whatever has become of the session
DeliverMessage ==
  /\ inFlight # <<>>
  /\ queuedTransform' =
       HandleCalls(voiceTransform, queuedTransform, inFlight, DateNow)
  /\ last' = Ev("message", inFlight, queuedTransform = voiceTransform)
  /\ inFlight' = <<>>
  /\ msgCount' = msgCount + 1
  /\ UNCHANGED <<file, handData, isTrackerActive, voiceTransform, refVars,
                 meshVars, clock, clockOffset, isVoiceActive, sessionRef,
                 pendingConnects, openSessions, frameOut, effectDeps,
                 insightVars, trackerVars>>

\* the voice button and the VoiceController effect it re-runs: switching on
\* starts a connection attempt; switching off closes the session that
\* sessionRef holds, if it holds one
ToggleVoice ==
  /\ isVoiceActive' = ~isVoiceActive
  /\ IF ~isVoiceActive
     THEN /\ pendingConnects' = pendingConnects + 1
          /\ UNCHANGED <<sessionRef, openSessions>>
     ELSE /\ openSessions' = IF sessionRef THEN openSessions - 1
                                           ELSE openSessions
          /\ sessionRef' = FALSE
          /\ UNCHANGED pendingConnects
  /\ last' = Ev("toggleVoice", <<>>, FALSE)
  /\ UNCHANGED <<file, handData, isTrackerActive, voiceTransform,
                 queuedTransform, refVars, meshVars, clock, clockOffset,
                 msgCount, inFlight, frameOut, effectDeps,
                 insightVars, trackerVars>>

\* sessionRef.current = await sessionPromise
ConnectResolves ==
  /\ pendingConnects > 0
  /\ pendingConnects' = pendingConnects - 1
  /\ openSessions' = openSessions + 1
  /\ sessionRef' = TRUE
  /\ last' = Ev("connect", <<>>, FALSE)
  /\ UNCHANGED <<file, handData, isTrackerActive, voiceTransform,
                 queuedTransform, refVars, meshVars, clock, clockOffset,
                 msgCount, isVoiceActive, inFlight, frameOut, effectDeps,
                 insightVars, trackerVars>>

\* ------------------------------------------------------------------------
\* GestureModel: refs and effects
\* ------------------------------------------------------------------------
Refs ==
  [targetPos |-> targetPos, targetRot |-> targetRot, targetScale |-> targetScale,
   isBouncing |-> isBouncing, bounceStartTime |-> bounceStartTime,
   lastFistState |-> lastFistState, lastDetectedAngle |-> lastDetectedAngle]

\* the useRef initial values
InitialRefs ==
  [targetPos |-> Vec(0, 0, 0), targetRot |-> Vec(0, 0, 0), targetScale |-> 1000,
   isBouncing |-> FALSE, bounceStartTime |-> 0,
   lastFistState |-> FALSE, lastDetectedAngle |-> 0]

SetRefs(r) ==
  /\ targetPos' = r.targetPos
  /\ targetRot' = r.targetRot
  /\ targetScale' = r.targetScale
  /\ isBouncing' = r.isBouncing
  /\ bounceStartTime' = r.bounceStartTime
  /\ lastFistState' = r.lastFistState
  /\ lastDetectedAngle' = r.lastDetectedAngle

\* (mutation) the reset effect forgetting the target rotation
ResetEffectKeepRot(r, vt) ==
  IF vt.resetTrigger > 0
  THEN [r EXCEPT !.targetPos = Vec(0, 0, 0), !.targetScale = 1000]
  ELSE r

\* useEffect(..., [voiceTransform.resetTrigger])
ResetEffect(r, vt) ==
  IF vt.resetTrigger > 0
  THEN [r EXCEPT !.targetPos = Vec(0, 0, 0), !.targetRot = Vec(0, 0, 0),
                 !.targetScale = 1000]
  ELSE r

\* (mutation) a bounce trigger that lifts the target
BounceEffectLifts(r, vt, perfNow) ==
  IF vt.bounceTrigger > 0
  THEN [r EXCEPT !.isBouncing = TRUE, !.bounceStartTime = perfNow,
                 !.targetPos.y = FAdd(@, 1300)]
  ELSE r

\* (mutation) a bounce trigger that turns the target back
BounceEffectTurnsBack(r, vt, perfNow) ==
  IF vt.bounceTrigger > 0
  THEN [r EXCEPT !.isBouncing = TRUE, !.bounceStartTime = perfNow,
                 !.targetRot = Vec(0, 0, 0)]
  ELSE r

\* useEffect(..., [voiceTransform.bounceTrigger])
BounceEffect(r, vt, perfNow) ==
  IF vt.bounceTrigger > 0
  THEN [r EXCEPT !.isBouncing = TRUE, !.bounceStartTime = perfNow]
  ELSE r

\* useEffect(..., [voiceTransform.scale])
ScaleEffect(r, vt) == [r EXCEPT !.targetScale = vt.scale]

\* the effects of one commit, in declaration order; on mount all of them
\* run, afterwards those whose dependency changed
RunEffects(r, old, new, mount, perfNow) ==
  LET r1 == IF mount \/ old.resetTrigger # new.resetTrigger
            THEN ResetEffect(r, new) ELSE r
      r2 == IF mount \/ old.bounceTrigger # new.bounceTrigger
            THEN BounceEffect(r1, new, perfNow) ELSE r1
  IN IF mount \/ old.scale # new.scale THEN ScaleEffect(r2, new) ELSE r2

\* a re-render of App after queued setVoiceTransform updaters
Render ==
  /\ last.kind = "message" \/ queuedTransform # voiceTransform
  /\ voiceTransform' = queuedTransform
  /\ IF file # 0
     THEN SetRefs(RunEffects(Refs, voiceTransform, queuedTransform, FALSE,
                             PerformanceNow))
     ELSE UNCHANGED refVars
  /\ effectDeps' = queuedTransform
  /\ last' = Ev("render", Carried({"message"}).calls, Carried({"message"}).fresh)
  /\ UNCHANGED <<file, handData, isTrackerActive, queuedTransform, meshVars,
                 clock, clockOffset, msgCount, frameOut, voiceVars,
                 insightVars, trackerVars>>

\* fetchInsight up to its await: the loading flag is raised and the request
\* to getSpatialInsight is on its way
FetchInsight ==
  /\ issued' = issued + 1
  /\ outstanding' = outstanding \cup {issued + 1}
  /\ isLoadingInsight' = TRUE
  /\ insight' = insight

\* the regenerate button: fetchInsight(file) for the file on display
RegenerateInsight(maxRequests) ==
  /\ file # 0
  /\ issued < maxRequests
  /\ FetchInsight
  /\ last' = Ev("regenerate", <<>>, FALSE)
  /\ UNCHANGED <<appVars, refVars, meshVars, clock, clockOffset, msgCount,
                 frameOut, effectDeps, voiceVars, trackerVars>>

\* getSpatialInsight returns for one of the requests on their way, in any
\* order, with the model's text or, after an error, with the fallback text;
\* fetchInsight resumes: setInsight(text), setIsLoadingInsight(false)
InsightResponse ==
  /\ \E r \in outstanding, ok \in BOOLEAN :
       /\ insight' = [req |-> r, ok |-> ok]
       /\ outstanding' = outstanding \ {r}
  /\ isLoadingInsight' = FALSE
  /\ last' = Ev("insight", <<>>, FALSE)
  /\ UNCHANGED <<appVars, refVars, meshVars, clock, clockOffset, msgCount,
                 frameOut, effectDeps, voiceVars, trackerVars, issued>>

\* handleFileUpload and the render it causes: the first upload mounts
\* GestureModel, a later one re-renders the mounted instance with a new file
HandleFileUpload(maxUploads) ==
  /\ file < maxUploads
  /\ file' = file + 1
  /\ last' = Ev(IF file = 0 THEN "mount" ELSE "upload",
                Carried({"message"}).calls, Carried({"message"}).fresh)
  /\ voiceTransform' = queuedTransform
  /\ SetRefs(RunEffects(Refs, voiceTransform, queuedTransform, file = 0,
                        PerformanceNow))
  /\ effectDeps' = queuedTransform
  /\ FetchInsight
  /\ UNCHANGED <<handData, isTrackerActive, queuedTransform, meshVars, clock,
                 clockOffset, msgCount, frameOut, voiceVars,
                 trackerVars>>

\* ------------------------------------------------------------------------
\* HandTracker -> App
\* ------------------------------------------------------------------------
\* hands.onResults with multiHandLandmarks: onHandUpdate -> setHandData
HandsOnResults(frames) ==
  /\ isTrackerActive
  /\ handsRef
  /\ \E fr \in frames :
       /\ handData' = HandDataOf(fr)
       /\ handData' # handData
  /\ last' = Ev("frame", <<>>, FALSE)
  /\ UNCHANGED <<file, isTrackerActive, voiceTransform, queuedTransform,
                 refVars, meshVars, clock, clockOffset, msgCount, frameOut,
                 effectDeps,
                 voiceVars,
                 insightVars, trackerVars>>

\* hands.onResults for a camera image without a hand.  What the hands
\* library puts in results.multiHandLandmarks then is its choice: left
\* undefined, the guard of line 81 skips onHandUpdate and App keeps the last
\* frame; an empty list is passed on like any other
HandsOnResultsNoHand ==
  /\ isTrackerActive
  /\ handsRef
  /\ \/ handData' = handData
     \/ handData' = HandDataOf(<<>>)
  /\ last' = Ev("nohand", <<>>, FALSE)
  /\ UNCHANGED <<file, isTrackerActive, voiceTransform, queuedTransform,
                 refVars, meshVars, clock, clockOffset, msgCount, frameOut,
                 effectDeps,
                 voiceVars,
                 insightVars, trackerVars>>

\* attempts < 60
MaxAttempts == 60

\* (mutation) initTracker without the limit on its attempts
InitTrackerNoLimit(n) ==
  IF ~modulesLoaded
  THEN /\ attempts' = n + 1
       /\ retryPending' = TRUE
       /\ UNCHANGED <<handsRef, trackerError>>
  ELSE /\ attempts' = n
       /\ retryPending' = FALSE
       /\ handsRef' = TRUE
       /\ trackerError' = FALSE

\* one call of initTracker with n attempts made so far: without the vision
\* modules it schedules itself again, at most MaxAttempts times, and then
\* sets the error; with them it creates the tracker and the camera
InitTracker(n) ==
  IF ~modulesLoaded
  THEN IF n < MaxAttempts
       THEN /\ attempts' = n + 1
            /\ retryPending' = TRUE
            /\ UNCHANGED <<handsRef, trackerError>>
       ELSE /\ attempts' = n
            /\ retryPending' = FALSE
            /\ trackerError' = TRUE
            /\ UNCHANGED handsRef
  ELSE /\ attempts' = n
       /\ retryPending' = FALSE
       /\ handsRef' = TRUE
       /\ trackerError' = FALSE

\* the timeout of checkInterval fires, 500 ms after it was set
RetryFires ==
  /\ retryPending
  /\ InitTracker(attempts)
  /\ last' = Ev("retry", <<>>, FALSE)
  /\ UNCHANGED <<appVars, refVars, meshVars, clock, clockOffset, msgCount,
                 frameOut, effectDeps, voiceVars, insightVars, modulesLoaded>>

\* the scripts of the vision modules finish loading
ModulesLoad ==
  /\ ~modulesLoaded
  /\ modulesLoaded' = TRUE
  /\ last' = Ev("modules", <<>>, FALSE)
  /\ UNCHANGED <<appVars, refVars, meshVars, clock, clockOffset, msgCount,
                 frameOut, effectDeps, voiceVars, insightVars, attempts,
                 retryPending, handsRef, trackerError>>

\* the tracking button: setIsTrackerActive(!isTrackerActive); the effect of
\* HandTracker runs its cleanup or calls initTracker
ToggleTracker ==
  /\ isTrackerActive' = ~isTrackerActive
  /\ IF ~isTrackerActive
     THEN InitTracker(0)
     ELSE /\ retryPending' = FALSE
          /\ handsRef' = FALSE
          /\ attempts' = 0
          /\ UNCHANGED trackerError
  /\ UNCHANGED modulesLoaded
  /\ last' = Ev("toggleTracker", <<>>, FALSE)
  /\ UNCHANGED <<file, handData, voiceTransform, queuedTransform, refVars,
                 meshVars, clock, clockOffset, msgCount, frameOut,
                 effectDeps, voiceVars,
                 insightVars>>

\* the handData prop of Scene
HandDataProp == IF isTrackerActive THEN handData ELSE NoHandData

\* ------------------------------------------------------------------------
\* GestureModel: the useFrame callback
\* ------------------------------------------------------------------------
\* pinchDist
PinchDist(hand) ==
  Hypot(FSub(hand[5].x, hand[9].x), FSub(hand[5].y, hand[9].y))

\* getAvgFingerDist
GetAvgFingerDist(h) ==
  LET mBase == h[10]
      d(idx) == Hypot(FSub(h[idx + 1].x, mBase.x), FSub(h[idx + 1].y, mBase.y))
  IN FScale(FAdd(FAdd(FAdd(FAdd(0, d(8)), d(12)), d(16)), d(20)), 1, 4)

\* isPointing
IsPointing(hand) ==
  /\ FLt(hand[9].y, hand[7].y)
  /\ FGt(hand[13].y, hand[11].y)
  /\ FGt(hand[17].y, hand[15].y)

\* (mutation) the two-hand zoom without its clamp
TwoHandScaleUnclamped(handDist) == FScale(handDist, 6, 1)

\* the target scale of the two-hand zoom (line 171)
TwoHandScale(handDist) == MathMax(100, MathMin(5000, FScale(handDist, 6, 1)))

\* sin(t * 22) * exp(-t * 4) at t quarter seconds, in thousandths
BounceWave(t) ==
  CASE t = -4 -> 483 [] t = -3 -> 14297 [] t = -2 -> 7389 [] t = -1 -> 1918
    [] t = 0 -> 0 [] t = 1 -> -260 [] t = 2 -> -135 [] t = 3 -> -35
    [] OTHER -> 0

\* (mutation) the pointing rotation without the minimum finger extension
PointingStageNoMinimum(r, hand, isPinching, isFist) ==
  IF IsPointing(hand) /\ ~isPinching /\ ~isFist
  THEN LET relX == FSub(hand[9].x, hand[10].x)
           relY == FSub(hand[9].y, hand[10].y)
           currentAngle == MathAtan2(relY, relX)
           normalizedDiff ==
             NormalizeAngle(FSub(currentAngle, r.lastDetectedAngle))
       IN [r EXCEPT
             !.targetRot.y =
                IF FLt(FAbs(normalizedDiff), 1000)
                THEN FAdd(@, FScale(normalizedDiff, 3, 1)) ELSE @,
             !.lastDetectedAngle = currentAngle]
  ELSE r

\* pointing (lines 123-144): the change of the index finger's angle turns
\* the target about y
PointingStage(r, hand, isPinching, isFist) ==
  IF IsPointing(hand) /\ ~isPinching /\ ~isFist
  THEN LET relX == FSub(hand[9].x, hand[10].x)
           relY == FSub(hand[9].y, hand[10].y)
           currentAngle == MathAtan2(relY, relX)
           indexExtension == Hypot(relX, relY)
           angleDiff == FSub(currentAngle, r.lastDetectedAngle)
           normalizedDiff == NormalizeAngle(angleDiff)
       IN [r EXCEPT
             !.targetRot.y =
                IF FGt(indexExtension, 120) /\ FLt(FAbs(normalizedDiff), 1000)
                THEN FAdd(@, FScale(normalizedDiff, 3, 1)) ELSE @,
             !.lastDetectedAngle = currentAngle]
  ELSE r

\* (mutation) the fist edge resetting the targets instead of bouncing
FistStageReset(r, isFist, t) ==
  [(IF isFist /\ ~r.lastFistState
    THEN [r EXCEPT !.targetPos = Vec(0, 0, 0), !.targetRot = Vec(0, 0, 0),
                   !.targetScale = 1000]
    ELSE r) EXCEPT !.lastFistState = isFist]

\* (mutation) the fist acting on every tick it is held
FistStageLevel(r, isFist, t) ==
  [(IF isFist
    THEN [r EXCEPT !.isBouncing = TRUE, !.bounceStartTime = t]
    ELSE r) EXCEPT !.lastFistState = isFist]

\* fist (lines 146-150): the False -> True edge starts a bounce
FistStage(r, isFist, t) ==
  [(IF isFist /\ ~r.lastFistState
    THEN [r EXCEPT !.isBouncing = TRUE, !.bounceStartTime = t]
    ELSE r) EXCEPT !.lastFistState = isFist]

\* pinch (lines 152-158): translation and a slight tilt
PinchStage(r, hand, isPinching) ==
  IF isPinching
  THEN [r EXCEPT
          !.targetPos.x = FScale(FSub(500, hand[10].x), 12, 1),
          !.targetPos.y = FScale(FSub(500, hand[10].y), 12, 1),
          !.targetRot.y = FAdd(@, FScale(FSub(hand[1].x, hand[10].x), 5, 100))]
  ELSE r

\* (mutation) the two-hand reset forgetting the target rotation
TwoHandStageKeepRot(r, hand, hand2, bothOpen) ==
  IF bothOpen
  THEN [r EXCEPT !.targetPos = Vec(0, 0, 0), !.targetScale = 1000]
  ELSE [r EXCEPT !.targetScale =
          TwoHandScale(Hypot(FSub(hand[10].x, hand2[10].x),
                             FSub(hand[10].y, hand2[10].y)))]

\* two hands (lines 161-173), both with their landmarks: both open resets
\* the targets, otherwise the hands' separation sets the target scale
TwoHandStage(r, hand, hand2, bothOpen) ==
  IF bothOpen
  THEN [r EXCEPT !.targetPos = Vec(0, 0, 0), !.targetRot = Vec(0, 0, 0),
                 !.targetScale = 1000]
  ELSE [r EXCEPT !.targetScale =
          TwoHandScale(Hypot(FSub(hand[10].x, hand2[10].x),
                             FSub(hand[10].y, hand2[10].y)))]

\* the callback takes the pointing branch (line 126) on the frame hd
PointingBranch(hd) ==
  /\ hd.present
  /\ Len(hd.landmarks) > 0
  /\ Len(hd.landmarks[1]) >= 21
  /\ IsPointing(hd.landmarks[1])
  /\ ~FLt(PinchDist(hd.landmarks[1]), 50)
  /\ ~FLt(GetAvgFingerDist(hd.landmarks[1]), 120)

\* the hand part of the callback (lines 100-174) on refs r at clock time t.
\* A property read of an undefined landmark throws: the callback stops
\* there and keeps what it has written so far.
HandStage(r, hd, t) ==
  IF ~(hd.present /\ Len(hd.landmarks) > 0)
  THEN [refs |-> r, threw |-> FALSE, fistFired |-> FALSE]
  ELSE
  LET hand == hd.landmarks[1]
  IN IF Len(hand) < 21
     THEN [refs |-> r, threw |-> TRUE, fistFired |-> FALSE]
     ELSE
     LET isPinching == FLt(PinchDist(hand), 50)
         avgFingerDist == GetAvgFingerDist(hand)
         isFist == FLt(avgFingerDist, 120)
         isOpen == FGt(avgFingerDist, 350)
         r1 == PointingStage(r, hand, isPinching, isFist)
         r2 == FistStage(r1, isFist, t)
         r3 == PinchStage(r2, hand, isPinching)
         out(rr, th) == [refs |-> rr, threw |-> th,
                         fistFired |-> (isFist /\ ~r1.lastFistState)]
     IN IF Len(hd.landmarks) # 2 THEN out(r3, FALSE)
        ELSE
        LET hand2 == hd.landmarks[2]
        IN IF isOpen
           THEN IF Len(hand2) < 21 THEN out(r3, TRUE)
                ELSE out(TwoHandStage(r3, hand, hand2,
                                      FGt(GetAvgFingerDist(hand2), 350)), FALSE)
           ELSE IF Len(hand2) < 10 THEN out(r3, TRUE)
                ELSE out(TwoHandStage(r3, hand, hand2, FALSE), FALSE)

\* (mutation) a bounce that never finishes
BounceStageNoEnd(r, t) ==
  IF r.isBouncing
  THEN LET bounceElapsed == t - r.bounceStartTime
       IN [refs |-> r,
           currentBounceY |-> FScale(FAbs(BounceWave(bounceElapsed)), 13, 10),
           currentBounceScale |-> FScale(BounceWave(bounceElapsed), 18, 100)]
  ELSE [refs |-> r, currentBounceY |-> 0, currentBounceScale |-> 0]

\* the bounce part of the callback (lines 176-188): the offsets of this tick
BounceStage(r, t) ==
  IF r.isBouncing
  THEN LET bounceElapsed == t - r.bounceStartTime
       IN IF bounceElapsed < 4
          THEN [refs |-> r,
                currentBounceY |-> FScale(FAbs(BounceWave(bounceElapsed)), 13, 10),
                currentBounceScale |-> FScale(BounceWave(bounceElapsed), 18, 100)]
          ELSE [refs |-> [r EXCEPT !.isBouncing = FALSE],
                currentBounceY |-> 0, currentBounceScale |-> 0]
  ELSE [refs |-> r, currentBounceY |-> 0, currentBounceScale |-> 0]

\* (mutation) the rendered position set onto its target at once
LerpPositionJump(m, r, bounceY) ==
  Vec(r.targetPos.x, FAdd(r.targetPos.y, bounceY), r.targetPos.z)

\* the smoothing part of the callback (lines 190-197)
LerpPosition(m, r, bounceY) ==
  Vec(Lerp(m.x, r.targetPos.x, 15),
      Lerp(m.y, FAdd(r.targetPos.y, bounceY), 25),
      Lerp(m.z, r.targetPos.z, 15))

LerpRotation(m, r) ==
  Vec(Lerp(m.x, r.targetRot.x, 15), Lerp(m.y, r.targetRot.y, 15), m.z)

LerpScale(m, r, bounceScale) == Lerp(m, FAdd(r.targetScale, bounceScale), 25)

\* (mutation) the spin added twice per tick
SpinStageTwice(r, vt) ==
  IF vt.rotationVelocity # 0
  THEN [r EXCEPT !.targetRot.y =
                    FAdd(FAdd(@, vt.rotationVelocity), vt.rotationVelocity)]
  ELSE r

\* voice-driven rotation velocity (lines 95-98)
SpinStage(r, vt) ==
  IF vt.rotationVelocity # 0
  THEN [r EXCEPT !.targetRot.y = FAdd(@, vt.rotationVelocity)]
  ELSE r

\* the end of a callback that did not throw (lines 176-197): the bounce
\* offsets b of this tick and the smoothing toward the targets
SmoothTick(b, fistFired, pointed) ==
  /\ SetRefs(b.refs)
  /\ meshPosition' = LerpPosition(meshPosition, b.refs, b.currentBounceY)
  /\ meshRotation' = LerpRotation(meshRotation, b.refs)
  /\ meshScale' = LerpScale(meshScale, b.refs, b.currentBounceScale)
  /\ frameOut' = [currentBounceY |-> b.currentBounceY,
                  currentBounceScale |-> b.currentBounceScale,
                  threw |-> FALSE, fistFired |-> fistFired,
                  pointed |-> pointed]

\* the callback from the result h of its hand part on: a throw stops it
\* with the refs written so far, otherwise the bounce and the smoothing run
FinishTick(h, t, pointed) ==
  IF h.threw
  THEN /\ SetRefs(h.refs)
       /\ UNCHANGED meshVars
       /\ frameOut' = [currentBounceY |-> 0, currentBounceScale |-> 0,
                       threw |-> TRUE, fistFired |-> h.fistFired,
                       pointed |-> pointed]
  ELSE SmoothTick(BounceStage(h.refs, t), h.fistFired, pointed)

\* one call of the useFrame callback by the render loop at clock time
\* clock + 1
UseFrame(maxClock) ==
  /\ file # 0
  /\ clock < maxClock
  /\ clock' = clock + 1
  /\ FinishTick(HandStage(SpinStage(Refs, voiceTransform), HandDataProp,
                          clock + 1),
                clock + 1, PointingBranch(HandDataProp))
  /\ last' = Ev("tick", Carried({"render", "upload"}).calls,
                Carried({"render", "upload"}).fresh)
  /\ UNCHANGED <<appVars, clockOffset, msgCount, voiceVars, effectDeps,
                 insightVars, trackerVars>>

\* ------------------------------------------------------------------------
\* Specifications: the engine under four environments
\* ------------------------------------------------------------------------
\* the tracking button pressed while tracking is off
StartTracking == ~isTrackerActive /\ ToggleTracker

\* the voice button pressed while voice is off and no session is left over
StartVoice ==
  ~isVoiceActive /\ pendingConnects = 0 /\ openSessions = 0 /\ ToggleVoice

\* the scenario in which voice is turned on before anything else happens and
\* the connection opens at once; the other interleavings of the two steps
\* are those of NextVoice, NextBounce, NextSpin and NextCommands
StartVoiceFirst == last.kind = "init" /\ StartVoice

ConnectAtOnce == last.kind = "toggleVoice" /\ ConnectResolves

ZoomCommands == { Bigger, Smaller }

\* scale path: increase and decrease commands, two-hand frames at separations
\* 0 and 0.9 and with both hands open
ScaleFrames ==
  { <<OpenHand(Pt(300, 500)), OpenHand(Pt(700, 500))>>,
    <<NeutralHand(Centre), NeutralHand(Centre)>>,
    <<OpenHand(Pt(50, 500)), NeutralHand(Pt(950, 500))>> }

NextScale ==
  \/ HandleFileUpload(MaxUploads)
  \/ StartTracking
  \/ StartVoiceFirst
  \/ ConnectAtOnce
  \/ HandsOnResults(ScaleFrames)
  \/ VoiceMessage(ZoomCommands, MaxScaleMessages)
  \/ Render
  \/ UseFrame(MaxScaleClock)

SpecScale == Init /\ [][NextScale]_vars

\* reset path: recenter, bounce, rotate and color commands; a pinch and a
\* two-hand open-palm frame
ResetCommands ==
  { Recenter, Bounce, Cmd("rotate", <<"f","a","s","t">>),
    Cmd("color", <<"r","e","d">>) }

ResetFrames ==
  { <<PinchHand(PinchBase)>>,
    <<OpenHand(Pt(300, 500)), OpenHand(Pt(700, 500))>> }

NextReset ==
  \/ HandleFileUpload(MaxUploads)
  \/ StartTracking
  \/ StartVoiceFirst
  \/ ConnectAtOnce
  \/ HandsOnResults(ResetFrames)
  \/ VoiceMessage(ResetCommands, MaxMessages)
  \/ Render
  \/ UseFrame(MaxClock)

SpecReset == Init /\ [][NextReset]_vars

\* gesture path: one-hand and two-hand frames; a rotate command for the spin
GestureCommands == { Cmd("rotate", Undefined) }

GestureFrames ==
  { <<NeutralHand(Centre)>>,
    <<FistHand(Centre)>>,
    <<PinchHand(PinchBase)>>,
    <<PointingHand(Centre, 150, -260)>>,
    <<OpenPinchHand(PinchBase), OpenHand(Pt(700, 500))>>,
    <<OpenPointingHand(Centre), OpenHand(Pt(800, 500))>>,
    <<NeutralHand(Pt(300, 500)), NeutralHand(Pt(600, 500))>> }

NextGesture ==
  \/ HandleFileUpload(MaxUploads)
  \/ StartTracking
  \/ StartVoiceFirst
  \/ ConnectAtOnce
  \/ HandsOnResults(GestureFrames)
  \/ VoiceMessage(GestureCommands, MaxGestureMessages)
  \/ Render
  \/ UseFrame(MaxGestureClock)

SpecGesture == Init /\ [][NextGesture]_vars

\* malformed input: frames with a short hand or a NaN coordinate among
\* well-formed ones
NextMalformed ==
  \/ HandleFileUpload(MaxUploads)
  \/ StartTracking
  \/ StartVoiceFirst
  \/ ConnectAtOnce
  \/ HandsOnResults(MalformedFrames \cup {<<PinchHand(PinchBase)>>})
  \/ VoiceMessage(GestureCommands, MaxGestureMessages)
  \/ Render
  \/ UseFrame(MaxClock)

SpecMalformed == Init /\ [][NextMalformed]_vars

\* tracking path: hands that come into the camera image and leave it
TrackingFrames ==
  { <<NeutralHand(Centre)>>,
    <<PinchHand(PinchBase)>>,
    <<PointingHand(Centre, 150, -260)>>,
    <<NeutralHand(Pt(300, 500)), NeutralHand(Pt(600, 500))>> }

NextTracking ==
  \/ HandleFileUpload(MaxUploads)
  \/ StartTracking
  \/ HandsOnResults(TrackingFrames)
  \/ HandsOnResultsNoHand
  \/ UseFrame(MaxGestureClock)

SpecTracking == Init /\ [][NextTracking]_vars

\* smoothing path: a mounted object whose target and rendered transform are
\* two of a few poses, left to the render loop alone
SmoothPoses ==
  { [pos |-> Vec(0, 0, 0), rotY |-> 0, scale |-> 1000],
    [pos |-> Vec(3000, 996, 0), rotY |-> 10, scale |-> 100],
    [pos |-> Vec(-6000, 6000, 0), rotY |-> 3142, scale |-> 5000],
    [pos |-> Vec(6000, -6000, 0), rotY |-> -3142, scale |-> 1800],
    [pos |-> Vec(4, -3, 0), rotY |-> 7, scale |-> 1003] }

InitSmooth ==
  /\ file = 1
  /\ handData = NoHandData
  /\ isTrackerActive = FALSE
  /\ voiceTransform = InitialVoiceTransform
  /\ queuedTransform = InitialVoiceTransform
  /\ \E p \in SmoothPoses :
       /\ targetPos = p.pos
       /\ targetRot = Vec(0, p.rotY, 0)
       /\ targetScale = p.scale
  /\ isBouncing = FALSE
  /\ bounceStartTime = 0
  /\ lastFistState = FALSE
  /\ lastDetectedAngle = 0
  /\ \E m \in SmoothPoses :
       /\ meshPosition = m.pos
       /\ meshRotation = Vec(0, m.rotY, 0)
       /\ meshScale = m.scale
  /\ clock = 0
  /\ clockOffset = 1
  /\ msgCount = 0
  /\ isVoiceActive = FALSE
  /\ sessionRef = FALSE
  /\ pendingConnects = 0
  /\ openSessions = 0
  /\ inFlight = <<>>
  /\ effectDeps = InitialVoiceTransform
  /\ insight = NoInsight
  /\ isLoadingInsight = TRUE
  /\ outstanding = {1}
  /\ issued = 1
  /\ modulesLoaded = TRUE
  /\ attempts = 0
  /\ retryPending = FALSE
  /\ handsRef = FALSE
  /\ trackerError = FALSE
  /\ frameOut = NoFrameOut
  /\ last = Ev("mount", <<>>, FALSE)

NextSmooth == UseFrame(MaxSmoothClock)

SpecSmooth == InitSmooth /\ [][NextSmooth]_vars

\* rendered-scale path: two hands held together (zoom to the smallest
\* scale), then a fist
RenderScaleFrames ==
  { <<NeutralHand(Centre), NeutralHand(Centre)>>,
    <<FistHand(Centre)>> }

\* the scenario in which the two hands are together from before the first
\* tick and the one-hand frames (here the fist) come at any later moment
HandsTogetherFirst ==
  clock = 0 /\ HandsOnResults({f \in RenderScaleFrames : Len(f) = 2})

OneHandLater == HandsOnResults({f \in RenderScaleFrames : Len(f) = 1})

NextRenderScale ==
  \/ HandleFileUpload(MaxUploads)
  \/ StartTracking
  \/ HandsTogetherFirst
  \/ OneHandLater
  \/ UseFrame(MaxRenderClock)

SpecRenderScale == Init /\ [][NextRenderScale]_vars

\* bounce path: bounce commands, a fist, and a pinch that gives the object a
\* pose
BounceFrames ==
  { <<FistHand(Centre)>>,
    <<PinchHand(PinchBase)>> }

NextBounce ==
  \/ HandleFileUpload(MaxUploads)
  \/ StartTracking
  \/ StartVoice
  \/ ConnectResolves
  \/ HandsOnResults(BounceFrames)
  \/ VoiceMessage({Bounce}, MaxGestureMessages)
  \/ Render
  \/ UseFrame(MaxBounceClock)

SpecBounce == Init /\ [][NextBounce]_vars

\* spin path: rotate commands and recenter, no hand
RotateSlow == Cmd("rotate", Undefined)

RotateFast == Cmd("rotate", <<"f","a","s","t">>)

RotateStop == Cmd("rotate", <<"s","t","o","p">>)

SpinCommands == { RotateSlow, RotateFast, RotateStop, Recenter }

NextSpin ==
  \/ HandleFileUpload(MaxUploads)
  \/ StartVoice
  \/ ConnectResolves
  \/ VoiceMessage(SpinCommands, MaxMessages)
  \/ Render
  \/ UseFrame(MaxGestureClock)

SpecSpin == Init /\ [][NextSpin]_vars

\* command path: rotate and color commands with the values that tell the
\* branches of the handler apart
RotateValues ==
  { Undefined,
    <<"f","a","s","t">>,
    <<"Q","u","i","c","k">>,
    <<"s","t","o","p">>,
    <<"s","t","o","p"," ","f","a","s","t">>,
    <<"N","O","N","E">>,
    <<"s","l","o","w","l","y">> }

ColorValues ==
  { Undefined, <<>>, <<"r","e","d">>, <<"D","a","r","k"," ","R","e","d">> }

ValueCommands ==
  { Cmd("rotate", v) : v \in RotateValues } \cup
  { Cmd("color", v) : v \in ColorValues }

NextCommands ==
  \/ HandleFileUpload(MaxUploads)
  \/ StartVoice
  \/ ConnectResolves
  \/ VoiceMessage(ValueCommands, MaxGestureMessages)
  \/ Render
  \/ UseFrame(MaxScaleClock)

SpecCommands == Init /\ [][NextCommands]_vars

\* unhandled actions: the two of the command vocabulary that the handler has
\* no case for, and a string outside the vocabulary; an increase command and
\* a pinch bring the state away from its defaults
MoveLeft == Cmd("move", <<"l","e","f","t">>)

Animate == Cmd("animate", Undefined)

Dance == Cmd("dance", <<"n","o","w">>)

UnhandledCommands == { MoveLeft, Animate, Dance }

NextUnhandled ==
  \/ HandleFileUpload(MaxUploads)
  \/ StartTracking
  \/ StartVoiceFirst
  \/ ConnectAtOnce
  \/ HandsOnResults({<<PinchHand(PinchBase)>>})
  \/ VoiceMessage(UnhandledCommands \cup {Bigger}, MaxMessages)
  \/ Render
  \/ UseFrame(MaxScaleClock)

SpecUnhandled == Init /\ [][NextUnhandled]_vars

\* load path: a first upload and a replacement, after commands and a pinch
LoadCommands == { Bigger, Bounce, Cmd("color", <<"r","e","d">>), RotateFast }

NextLoad ==
  \/ HandleFileUpload(MaxLoads)
  \/ StartTracking
  \/ StartVoiceFirst
  \/ ConnectAtOnce
  \/ HandsOnResults({<<PinchHand(PinchBase)>>})
  \/ VoiceMessage(LoadCommands, MaxGestureMessages)
  \/ Render
  \/ UseFrame(MaxScaleClock)

SpecLoad == Init /\ [][NextLoad]_vars

\* the commit of a re-render of App: GestureModel's props and the closure of
\* its useFrame callback are replaced; its useEffect callbacks are left
\* pending, to run at a later moment of the library's choosing
Commit ==
  /\ effectDeps = voiceTransform
  /\ last.kind = "message" \/ queuedTransform # voiceTransform
  /\ voiceTransform' = queuedTransform
  /\ effectDeps' = IF file # 0 THEN effectDeps ELSE queuedTransform
  /\ last' = Ev("commit", Carried({"message"}).calls,
                Carried({"message"}).fresh)
  /\ UNCHANGED <<file, handData, isTrackerActive, queuedTransform, refVars,
                 meshVars, clock, clockOffset, msgCount, frameOut, voiceVars,
                 insightVars, trackerVars>>

\* the pending useEffect callbacks of GestureModel run
FlushEffects ==
  /\ file # 0
  /\ effectDeps # voiceTransform
  /\ SetRefs(RunEffects(Refs, effectDeps, voiceTransform, FALSE,
                        PerformanceNow))
  /\ effectDeps' = voiceTransform
  /\ last' = Ev("effects", Carried({"commit"}).calls,
                Carried({"commit"}).fresh)
  /\ UNCHANGED <<appVars, meshVars, clock, clockOffset, msgCount, frameOut,
                 voiceVars,
                 insightVars, trackerVars>>

\* a recenter after a fast rotation, no hand in view, the render taken in
\* its two steps
AtomicCommands == { RotateFast, Recenter }

NextAtomic ==
  \/ HandleFileUpload(MaxUploads)
  \/ StartVoiceFirst
  \/ ConnectAtOnce
  \/ VoiceMessage(AtomicCommands, MaxMessages)
  \/ Commit
  \/ FlushEffects
  \/ UseFrame(MaxClock)

SpecAtomic == Init /\ [][NextAtomic]_vars

\* tracking switched off and on again: the tracking button at any moment,
\* a pinch or a neutral hand in front of the camera
RetrackFrames == { <<PinchHand(PinchBase)>>, <<NeutralHand(Centre)>> }

NextRetrack ==
  \/ HandleFileUpload(MaxUploads)
  \/ ToggleTracker
  \/ HandsOnResults(RetrackFrames)
  \/ UseFrame(MaxGestureClock)

SpecRetrack == Init /\ [][NextRetrack]_vars

\* insight path: uploads and regenerations whose responses arrive in any
\* order, beside a pinch and a tick
NextInsight ==
  \/ HandleFileUpload(MaxLoads)
  \/ RegenerateInsight(MaxRequests)
  \/ InsightResponse
  \/ StartTracking
  \/ HandsOnResults({<<PinchHand(PinchBase)>>})
  \/ UseFrame(MaxScaleClock)

SpecInsight == Init /\ [][NextInsight]_vars

\* tracker start-up path: the tracking button at any moment while the
\* vision scripts are missing or arrive late
NextInit ==
  \/ HandleFileUpload(MaxUploads)
  \/ ToggleTracker
  \/ RetryFires
  \/ ModulesLoad

SpecInit == InitMissing /\ [][NextInit]_vars

\* pointing with a short index finger: extension 0.1, the other fingers far
\* enough from the base for the hand not to be a fist
ShortPointingHand(mb, ex, ey) ==
  MkHand(Off(mb, 0, 200), Off(mb, -150, 0), Off(mb, 0, 50), Off(mb, ex, ey),
         mb, Off(mb, 0, 100), Off(mb, 0, 200), Off(mb, 0, 100),
         Off(mb, 0, 200), Off(mb, 0, 200))

\* pointing path: the index finger at the angles 3.13, -3.13, -1.571, -1.053
\* and -0.321 rad, a short index finger at -0.5 rad, and a relaxed hand
PointingFrames ==
  { <<PointingHand(Centre, -330, 4)>>,
    <<PointingHand(Centre, -330, -4)>>,
    <<PointingHand(Centre, 0, -300)>>,
    <<PointingHand(Centre, 150, -260)>>,
    <<PointingHand(Centre, 300, -100)>>,
    <<ShortPointingHand(Centre, 88, -48)>>,
    <<NeutralHand(Centre)>> }

NextPointing ==
  \/ HandleFileUpload(MaxUploads)
  \/ StartTracking
  \/ HandsOnResults(PointingFrames)
  \/ UseFrame(MaxGestureClock)

SpecPointing == Init /\ [][NextPointing]_vars

\* the voice button pressed while voice is on
StopVoice == isVoiceActive /\ ToggleVoice

\* voice path: the voice button switched on and off while the session
\* connects and while messages are on their way
NextVoice ==
  \/ HandleFileUpload(MaxUploads)
  \/ StartVoice
  \/ StopVoice
  \/ ConnectResolves
  \/ ReceiveMessage(ScaleCommands, MaxMessages)
  \/ DeliverMessage
  \/ Render
  \/ UseFrame(MaxScaleClock)

SpecVoice == Init /\ [][NextVoice]_vars

\* ------------------------------------------------------------------------
\* Claims on the scale path (SpecScale)
\* ------------------------------------------------------------------------
InScaleBounds(v) == v >= 100 /\ v <= 10000

\* C1: in every reachable state, after any sequence of scale commands,
\* recenter commands, two-hand zoom ticks and two-hand recenter ticks, the
\* target scale (and the voice scale it is synchronised from) lies in
\* [0.1, 10].
C1_ScaleInBounds ==
  /\ InScaleBounds(targetScale)
  /\ InScaleBounds(voiceTransform.scale)
  /\ InScaleBounds(queuedTransform.scale)

\* a fourth "bigger" in a row has been rendered: 1.5^4 > 5 was clamped
C1_Witness ==
  /\ file # 0
  /\ last.kind = "render"
  /\ last.calls = <<Bigger>>
  /\ msgCount = 4
  /\ targetScale = 5000

\* C8: a scale command multiplies the target scale in effect immediately
\* before the command (also one written by a two-hand gesture) by 1.5 or by
\* 0.7 and clamps the result to the bounds.
C8_ScaleFromCurrentTarget ==
  [][(/\ file # 0
      /\ last.kind = "message" /\ last.fresh
      /\ last.calls \in {<<Bigger>>, <<Smaller>>}
      /\ last'.kind = "render")
     => targetScale' =
          MathMax(100, MathMin(10000,
            FScale(targetScale,
                   IF last.calls = <<Bigger>> THEN 15 ELSE 7, 10)))
    ]_vars

\* C9: commands take effect in arrival order, each applied to the state the
\* previous one left, also without a render in between: a recenter followed
\* immediately by an increase command gives scale 1.5.
C9_RecenterThenBigger ==
  (last.kind = "render" /\ last.calls = <<Recenter, Bigger>>)
    => voiceTransform.scale = 1500


\* ------------------------------------------------------------------------
\* Claims on the reset path (SpecReset)
\* ------------------------------------------------------------------------
EndsWithRecenter(calls) == calls # <<>> /\ calls[Len(calls)] = Recenter

Origin == Vec(0, 0, 0)

TargetIsDefault ==
  targetPos = Origin /\ targetRot = Origin /\ targetScale = 1000

\* both hands of the frame classify as open palm
BothOpen(hd) ==
  /\ hd.present
  /\ Len(hd.landmarks) = 2
  /\ \A i \in 1..2 :
       /\ Len(hd.landmarks[i]) = 21
       /\ FGt(GetAvgFingerDist(hd.landmarks[i]), 350)

\* C2: once a voice recenter has been processed (its render committed), the
\* target position and rotation are (0,0,0), the target scale is 1, the color
\* override is absent and the rotation velocity is 0.
C2_VoiceRecenterResets ==
  (file # 0 /\ last.kind = "render" /\ EndsWithRecenter(last.calls))
    => /\ TargetIsDefault
       /\ voiceTransform.color = NullColor
       /\ voiceTransform.rotationVelocity = 0

\* a recenter rendered while the object was displaced, turned and bouncing:
\* the rendered transform is still away from the defaults
C2_Witness ==
  /\ file # 0 /\ last.kind = "render" /\ EndsWithRecenter(last.calls)
  /\ meshPosition.x # 0 /\ meshRotation.y # 0
  /\ TargetIsDefault

C4_RecenterCancelsBounce ==
  (/\ last.kind = "tick" /\ last.fresh
   /\ last.calls = <<Recenter>>)
    => /\ frameOut.currentBounceY = 0
       /\ frameOut.currentBounceScale = 0

\* ------------------------------------------------------------------------
\* Claims on the gesture path (SpecGesture)
\* ------------------------------------------------------------------------
HasHand(hd) == hd.present /\ Len(hd.landmarks) > 0

PrimaryIsFist(hd) == FLt(GetAvgFingerDist(hd.landmarks[1]), 120)

PrimaryIsPinching(hd) == FLt(PinchDist(hd.landmarks[1]), 50)

IsTick == last'.kind = "tick" /\ clock' = clock + 1

C6_FistEdgeTriggered ==
  [][(IsTick /\ HasHand(HandDataProp))
     => /\ lastFistState' = PrimaryIsFist(HandDataProp)
        /\ IF PrimaryIsFist(HandDataProp) /\ ~lastFistState
           THEN frameOut'.fistFired /\ isBouncing' /\ bounceStartTime' = clock'
           ELSE ~frameOut'.fistFired /\ bounceStartTime' = bounceStartTime
    ]_vars

\* the second tick of a held fist: the bounce of the first tick goes on
C6_Witness ==
  /\ last.kind = "tick" /\ HasHand(HandDataProp)
  /\ PrimaryIsFist(HandDataProp) /\ lastFistState
  /\ ~frameOut.fistFired
  /\ isBouncing /\ bounceStartTime = clock - 1

\* C7: on a tick where two hands are present and both classify as open palm,
\* the tick ends with target position and rotation (0,0,0) and scale 1: no
\* zoom is applied and a pinch or pointing update of the primary hand in the
\* same tick is overridden.
C7_TwoHandRecenter ==
  (last.kind = "tick" /\ BothOpen(HandDataProp)) => TargetIsDefault

\* both hands open, the primary one pinching, while the object spins
C7_Witness ==
  /\ last.kind = "tick" /\ BothOpen(HandDataProp)
  /\ PrimaryIsPinching(HandDataProp)
  /\ voiceTransform.rotationVelocity # 0
  /\ TargetIsDefault

\* ------------------------------------------------------------------------
\* Claims on malformed input (SpecMalformed)
\* ------------------------------------------------------------------------
HasNaN(hand) == \E i \in 1..Len(hand) : IsNaN(hand[i].x) \/ IsNaN(hand[i].y)

Malformed(hd) ==
  /\ HasHand(hd)
  /\ \E i \in 1..Len(hd.landmarks) :
       Len(hd.landmarks[i]) < 21 \/ HasNaN(hd.landmarks[i])

\* C10: for a frame in which a hand has fewer than 21 landmarks or a NaN
\* coordinate, the tick completes without throwing and leaves the target
\* position, rotation and scale as they were (apart from the spin); the
\* target scale never becomes NaN.
C10_MalformedFrameIsNoOp ==
  [][(IsTick /\ Malformed(HandDataProp))
     => /\ ~frameOut'.threw
        /\ ~IsNaN(targetScale')
        /\ targetPos' = targetPos
        /\ targetScale' = targetScale
        /\ targetRot' = [targetRot EXCEPT
                           !.y = @ + voiceTransform.rotationVelocity]
    ]_vars

\* ------------------------------------------------------------------------
\* Claims on a hand leaving the image (SpecTracking)
\* ------------------------------------------------------------------------
\* C11: on a tick for which the vision pipeline reported no hand, the
\* gesture logic does not mutate TargetState: position and scale are the
\* same after the tick as before it, and the rotation changes by the spin
\* only.
C11_NoHandTickKeepsTarget ==
  [][(last.kind = "nohand" /\ IsTick)
     => /\ targetPos' = targetPos
        /\ targetScale' = targetScale
        /\ targetRot' = [targetRot EXCEPT
                           !.y = @ + voiceTransform.rotationVelocity]
    ]_vars

\* ------------------------------------------------------------------------
\* Claims on the voice session (SpecVoice)
\* ------------------------------------------------------------------------
\* C12: after voice input has been deactivated, a command delivered by a
\* message that was still in flight (handled after the session was closed)
\* is discarded: it changes no field of the voice-driven state.
C12_LateCommandDiscarded ==
  [][(/\ inFlight # <<>> /\ last'.kind = "message"
      /\ ~isVoiceActive /\ openSessions = 0)
     => queuedTransform' = queuedTransform
    ]_vars

\* ------------------------------------------------------------------------
\* Claims on the smoothing (SpecSmooth)
\* ------------------------------------------------------------------------
Gap(a, b) == FAbs(FSub(a, b))

Contracts(m, mNext, target, a) ==
  /\ (m >= target) => (mNext >= target)
  /\ (m <= target) => (mNext <= target)
  /\ Gap(mNext, target) <= Gap(m, target)
  /\ 100 * Gap(mNext, target) <= (100 - a) * Gap(m, target) + 100
  /\ (a * Gap(m, target) >= 100) => Gap(mNext, target) < Gap(m, target)

C14_RenderedScaleInBounds ==
  (file # 0 /\ InScaleBounds(targetScale)) => InScaleBounds(meshScale)

\* ------------------------------------------------------------------------
\* Claims on the bounce (SpecBounce)
\* ------------------------------------------------------------------------
OnlyBounces(calls) ==
  calls # <<>> /\ \A i \in 1..Len(calls) : calls[i] = Bounce

\* C15: for a bounce triggered by a voice bounce command at time T0 the
\* animator measures the elapsed time from T0 on its own clock: the render
\* that commits the trigger starts the bounce at the clock's current time,
\* so that the elapsed time starts at 0 and is never negative.
C15_VoiceBounceStartsAtZero ==
  [][(/\ file # 0
      /\ last.kind = "message" /\ OnlyBounces(last.calls)
      /\ last'.kind = "render")
     => /\ isBouncing'
        /\ bounceStartTime' = clock
    ]_vars

\* C16: on every tick at which the animator's elapsed time since the newest
\* trigger has reached the duration (1.0 s = 4 ticks) the bounce is over and
\* both offsets are exactly 0; they stay 0 on later ticks until a new
\* trigger; while a bounce runs the offsets are those of the one envelope
\* that starts at the newest trigger, never a sum with an older one.
C16_BounceEndsAndNeverSums ==
  [][IsTick
     => LET t == clock' - bounceStartTime'
        IN /\ isBouncing'
                => /\ t < 4
                   /\ frameOut'.currentBounceY =
                        FScale(FAbs(BounceWave(t)), 13, 10)
                   /\ frameOut'.currentBounceScale =
                        FScale(BounceWave(t), 18, 100)
           /\ ~isBouncing'
                => /\ frameOut'.currentBounceY = 0
                   /\ frameOut'.currentBounceScale = 0
           /\ (~frameOut'.fistFired /\ clock' - bounceStartTime >= 4)
                => ~isBouncing'
           /\ (~frameOut'.fistFired /\ ~isBouncing)
                => ~isBouncing' /\ bounceStartTime' = bounceStartTime
    ]_vars

\* a bounce triggered by voice and by a fist has run out: the tick at
\* elapsed time 1.0 s since the newest trigger ended it
C16_Witness ==
  /\ last.kind = "tick"
  /\ lastFistState
  /\ voiceTransform.bounceTrigger > 1
  /\ bounceStartTime > 1
  /\ clock - bounceStartTime = 4
  /\ ~isBouncing
  /\ frameOut.currentBounceY = 0 /\ frameOut.currentBounceScale = 0

\* C17: the bounce never writes TargetState: the render that commits a
\* bounce trigger and every tick without a pinch leave the target position,
\* rotation and scale as they were, whether a bounce runs or not; once the
\* bounce is over the rendered position and scale move back toward that
\* unchanged target.
C17_BounceKeepsTarget ==
  [][/\ (file # 0 /\ OnlyBounces(last.calls) /\ last'.kind = "render")
        => UNCHANGED <<targetPos, targetRot, targetScale>>
     /\ (IsTick /\ ~(HasHand(HandDataProp) /\ PrimaryIsPinching(HandDataProp)))
        => /\ UNCHANGED <<targetPos, targetRot, targetScale>>
           /\ ~isBouncing'
                => /\ Contracts(meshPosition.y, meshPosition'.y, targetPos.y, 25)
                   /\ Contracts(meshScale, meshScale', targetScale, 25)
    ]_vars

\* an object pinched to (3, 1, 0) has bounced by voice and by fist and the
\* bounce is over: the target is where the pinch left it
C17_Witness ==
  /\ last.kind = "tick" /\ ~isBouncing
  /\ voiceTransform.bounceTrigger > 0
  /\ lastFistState
  /\ clock - bounceStartTime >= 4
  /\ targetPos = Vec(3000, 996, 0) /\ targetScale = 1000
  /\ meshPosition.x # 0

\* ------------------------------------------------------------------------
\* Claims on the spin (SpecSpin)
\* ------------------------------------------------------------------------
EndsWithStop(calls) ==
  calls # <<>> /\ calls[Len(calls)] \in {RotateStop, Recenter}

\* C18: while the rotation velocity v is non-zero every tick adds exactly v
\* to the target rotation about y, once and without decay; the render that
\* commits a rotate-stop or a recenter leaves the velocity at 0, the
\* velocity changes at no other moment than a commit, and with velocity 0 a
\* tick adds nothing.
C18_SpinIntegration ==
  [][/\ (IsTick /\ ~HasHand(HandDataProp))
        => targetRot' = [targetRot EXCEPT
                           !.y = @ + voiceTransform.rotationVelocity]
     /\ (last.kind = "message" /\ EndsWithStop(last.calls)
           /\ last'.kind \in {"render", "mount"})
        => voiceTransform'.rotationVelocity = 0
     /\ (voiceTransform'.rotationVelocity # voiceTransform.rotationVelocity)
        => last'.kind \in {"render", "mount", "upload"}
    ]_vars

\* a fast spin stopped after one tick: the tick after the stop leaves the
\* rotation where the spin had brought it
C18_Witness ==
  /\ last.kind = "tick" /\ last.calls = <<RotateStop>>
  /\ voiceTransform.rotationVelocity = 0
  /\ targetRot.y = 100

\* ------------------------------------------------------------------------
\* Claims on the command handler (SpecCommands)
\* ------------------------------------------------------------------------
IsDelivery == last'.kind = "message"

LastCall == last'.calls[Len(last'.calls)]

AllOf(calls, action) == \A i \in 1..Len(calls) : calls[i].action = action

\* the velocity the claim gives for each value, in thousandths
ClaimedVelocity(value) ==
  CASE value \in { <<"s","t","o","p">>,
                   <<"s","t","o","p"," ","f","a","s","t">>,
                   <<"N","O","N","E">> } -> 0
    [] value \in { <<"f","a","s","t">>, <<"Q","u","i","c","k">> } -> 100
    [] OTHER -> 30

\* C19: a rotate command sets the rotation velocity to 0 if the value
\* contains a stop keyword, to 0.1 if it contains "fast" or "quick", and to
\* 0.03 otherwise, also when the value is absent; it changes no other field:
\* scale, color and both triggers stay, and the render that commits rotate
\* commands leaves the target position, rotation and scale alone.
C19_RotateSetsVelocity ==
  [][/\ (IsDelivery /\ LastCall.action = "rotate")
        => queuedTransform'.rotationVelocity = ClaimedVelocity(LastCall.value)
     /\ (IsDelivery /\ AllOf(last'.calls, "rotate"))
        => queuedTransform' =
             [queuedTransform EXCEPT
                !.rotationVelocity = ClaimedVelocity(LastCall.value)]
     /\ (file # 0 /\ last.kind = "message" /\ AllOf(last.calls, "rotate")
           /\ last'.kind = "render")
        => UNCHANGED <<targetPos, targetRot, targetScale>>
    ]_vars

\* "Quick" after a color command: the velocity is 0.1, the color stays
C19_Witness ==
  /\ last.kind = "render"
  /\ last.calls = << Cmd("color", <<"r","e","d">>),
                     Cmd("rotate", <<"Q","u","i","c","k">>) >>
  /\ voiceTransform.rotationVelocity = 100
  /\ voiceTransform.color = <<"r","e","d">>

\* C20: a color command with a non-empty value stores that text verbatim as
\* the color override; a color command whose value is absent clears the
\* override.
C20_ColorStoredOrCleared ==
  [][(IsDelivery /\ LastCall.action = "color")
     => /\ LastCall.value \notin {Undefined, <<>>}
             => queuedTransform'.color = LastCall.value
        /\ LastCall.value = Undefined
             => queuedTransform'.color = NullColor
    ]_vars

\* ------------------------------------------------------------------------
\* Claims on the bounce command (SpecBounce)
\* ------------------------------------------------------------------------
\* C21: a bounce command only records a new bounce trigger: the handler
\* changes the bounce trigger (to the time of the command) and no other
\* field, and
\* neither the command nor the commit that follows it changes the target
\* position, rotation or scale, the color override or the rotation velocity.
C21_BounceOnlyRecordsTrigger ==
  [][/\ (last'.kind = "message" /\ OnlyBounces(last'.calls))
        => /\ queuedTransform' =
                [queuedTransform EXCEPT !.bounceTrigger = DateNow]
           /\ UNCHANGED <<targetPos, targetRot, targetScale, voiceTransform>>
     /\ (last.kind = "message" /\ OnlyBounces(last.calls)
           /\ last'.kind \in {"render", "mount", "upload"})
        => /\ UNCHANGED <<targetPos, targetRot, targetScale>>
           /\ voiceTransform' =
                [voiceTransform EXCEPT
                   !.bounceTrigger = voiceTransform'.bounceTrigger]
    ]_vars

\* a bounce command committed for an object that a pinch has moved to
\* (3, 1, 0) and tilted: the trigger is new, the target is the pinch's
C21_Witness ==
  /\ last.kind = "render" /\ last.calls = <<Bounce>>
  /\ voiceTransform.bounceTrigger > 0
  /\ isBouncing
  /\ targetPos = Vec(3000, 996, 0)
  /\ targetRot.y # 0
  /\ voiceTransform.color = NullColor
  /\ voiceTransform.rotationVelocity = 0

\* ------------------------------------------------------------------------
\* Claims on unhandled actions (SpecUnhandled)
\* ------------------------------------------------------------------------
RECURSIVE DropUnhandled(_)
DropUnhandled(calls) ==
  IF calls = <<>> THEN <<>>
  ELSE IF Head(calls).action \in HandledActions
       THEN <<Head(calls)>> \o DropUnhandled(Tail(calls))
       ELSE DropUnhandled(Tail(calls))

\* C22: a command whose action is not one of the handled actions, move and
\* animate included, is a no-op: a message of such commands leaves scale,
\* color, both triggers and the rotation velocity as they were, among other
\* commands it has the effect of not being there, and neither it nor the
\* re-render after it changes the target position, rotation or scale or
\* starts a bounce.
C22_UnhandledIsNoOp ==
  [][/\ IsDelivery
        => /\ queuedTransform' =
                HandleCalls(voiceTransform, queuedTransform,
                            DropUnhandled(last'.calls), DateNow)
           /\ UNCHANGED <<voiceTransform, refVars, meshVars>>
     /\ (IsDelivery /\ DropUnhandled(last'.calls) = <<>>)
        => queuedTransform' = queuedTransform
     /\ (last.kind = "message" /\ last.fresh
           /\ DropUnhandled(last.calls) = <<>> /\ last'.kind = "render")
        => UNCHANGED <<voiceTransform, refVars, meshVars>>
    ]_vars

\* a move and an animate command in one message, re-rendered, for an object
\* that was scaled to 1.5 and pinched to (3, 1, 0)
C22_Witness ==
  /\ last.kind = "render"
  /\ last.calls = <<MoveLeft, Animate>>
  /\ voiceTransform.scale = 1500 /\ targetScale = 1500
  /\ voiceTransform.resetTrigger = 0
  /\ targetPos = Vec(3000, 996, 0)
  /\ targetRot.y # 0

\* ------------------------------------------------------------------------
\* Claims on the two-hand zoom (SpecScale)
\* ------------------------------------------------------------------------
TwoFullHands(hd) ==
  /\ hd.present
  /\ Len(hd.landmarks) = 2
  /\ \A i \in 1..2 : Len(hd.landmarks[i]) = 21

\* the distance between the two hands' middle-finger-base landmarks
HandSeparation(hd) ==
  Hypot(FSub(hd.landmarks[1][10].x, hd.landmarks[2][10].x),
        FSub(hd.landmarks[1][10].y, hd.landmarks[2][10].y))

\* C23: on any tick where two hands are present and are not both open the
\* target scale is set to min(10, max(0.1, d * 6)), d the distance between
\* the two hands' middle-finger-base landmarks.
C23_TwoHandZoomScale ==
  [][(IsTick /\ TwoFullHands(HandDataProp) /\ ~BothOpen(HandDataProp))
     => targetScale' =
          MathMin(10000, MathMax(100, FScale(HandSeparation(HandDataProp), 6, 1)))
    ]_vars

\* ------------------------------------------------------------------------
\* Claims on loading an object (SpecLoad)
\* ------------------------------------------------------------------------
\* C24: whenever an object has just been loaded, by the first upload or by
\* a replacement, the TargetState in effect is the defaults: position and
\* rotation (0,0,0), scale 1, no color override, no animation, rotation
\* velocity 0, whatever commands and gestures came before.
C24_LoadGivesDefaults ==
  (last.kind \in {"mount", "upload"})
    => /\ TargetIsDefault
       /\ voiceTransform.color = NullColor
       /\ voiceTransform.rotationVelocity = 0
       /\ ~isBouncing

\* ------------------------------------------------------------------------
\* Claims on the pointing rotation (SpecPointing)
\* ------------------------------------------------------------------------
\* one hand in a pointing pose: pointing, not pinching, not a fist
PointingPose(hd) ==
  /\ HasHand(hd)
  /\ Len(hd.landmarks) = 1
  /\ Len(hd.landmarks[1]) = 21
  /\ IsPointing(hd.landmarks[1])
  /\ ~PrimaryIsPinching(hd)
  /\ ~PrimaryIsFist(hd)

\* the angle and the length of the index finger from the middle-finger base
IndexAngle(hd) ==
  MathAtan2(FSub(hd.landmarks[1][9].y, hd.landmarks[1][10].y),
            FSub(hd.landmarks[1][9].x, hd.landmarks[1][10].x))

IndexExtension(hd) ==
  Hypot(FSub(hd.landmarks[1][9].x, hd.landmarks[1][10].x),
        FSub(hd.landmarks[1][9].y, hd.landmarks[1][10].y))

\* d is the angle in (-PI, PI] that differs from raw by a multiple of 2 PI
IsNormalizedOf(d, raw) ==
  /\ d > -PI /\ d <= PI
  /\ \E k \in {-1, 0, 1} : d = raw + k * TwoPI

\* C25: the pointing-rotation angle delta that is applied on a tick is the
\* difference to the angle of the previous pointing tick normalized into
\* (-PI, PI]: the target rotation about y changes by 3 times that angle or
\* not at all, never by 3 times the raw difference; when the angle goes from
\* +3.13 to -3.13 the applied delta is the small angle 0.024.
C25_DeltaNormalized ==
  [][(IsTick /\ PointingPose(HandDataProp))
     => LET raw == IndexAngle(HandDataProp) - lastDetectedAngle
            applied == targetRot'.y - targetRot.y
        IN /\ \/ applied = 0
              \/ \E d \in -PI..PI : IsNormalizedOf(d, raw) /\ applied = 3 * d
           /\ (lastDetectedAngle = 3130 /\ IndexAngle(HandDataProp) = -3130)
                => applied = 3 * 24
    ]_vars

\* the index finger has gone from +3.13 to -3.13 between two pointing ticks
\* and the target has turned by 3 * 0.024
C25_Witness ==
  /\ last.kind = "tick" /\ clock = 2
  /\ PointingPose(HandDataProp)
  /\ lastDetectedAngle = -3130
  /\ targetRot.y = 72

\* the angle in (-PI, PI] that differs from raw by a multiple of 2 PI, for a
\* difference raw of two angles of [-PI, PI]
NormalizedDelta(raw) ==
  CHOOSE d \in {raw - TwoPI, raw, raw + TwoPI} : d > -PI /\ d <= PI

\* C26 as stated: on the second of two consecutive ticks in a pointing pose
\* the target rotation about y changes by exactly 3.0 times the normalized
\* angle delta when the finger extension is above 0.12, for every delta in
\* (-PI, PI], and not at all when the extension is at most 0.12.
C26_GainOnEveryDelta ==
  [][(IsTick /\ PointingPose(HandDataProp) /\ frameOut.pointed)
     => LET d == NormalizedDelta(IndexAngle(HandDataProp) - lastDetectedAngle)
        IN targetRot'.y =
             targetRot.y + voiceTransform.rotationVelocity
               + (IF IndexExtension(HandDataProp) > 120 THEN 3 * d ELSE 0)
    ]_vars

\* C26 amended: on the second of two consecutive ticks in a one-hand
\* pointing pose the target rotation about y changes, besides the spin, by
\* exactly 3.0 times the normalized angle delta when the finger extension is
\* above 0.12 and the delta is less than 1.0 rad in magnitude; when the
\* extension is at most 0.12 or the delta is 1.0 rad or more no rotation is
\* applied.  Either way the angle is remembered for the next tick.
C26_GainOnSmallDelta ==
  [][(IsTick /\ PointingPose(HandDataProp) /\ frameOut.pointed)
     => LET d == NormalizedDelta(IndexAngle(HandDataProp) - lastDetectedAngle)
        IN /\ targetRot'.y =
                targetRot.y + voiceTransform.rotationVelocity
                  + (IF IndexExtension(HandDataProp) > 120 /\ d > -1000
                          /\ d < 1000
                     THEN 3 * d ELSE 0)
           /\ lastDetectedAngle' = IndexAngle(HandDataProp)
           /\ UNCHANGED <<targetPos, targetScale>>
    ]_vars

\* the finger went from -1.571 to -1.053 and then, shortened to 0.1, to
\* -0.5: the first delta turned the target by 3 * 0.518, the second did not
C26_Witness ==
  /\ last.kind = "tick" /\ clock = 3
  /\ frameOut.pointed
  /\ PointingPose(HandDataProp)
  /\ IndexExtension(HandDataProp) <= 120
  /\ targetRot.y = 1554

\* ------------------------------------------------------------------------
\* Claims on the smoothing of every tick (SpecMalformed)
\* ------------------------------------------------------------------------
\* from m the channel has moved to mNext by the fraction a (in hundredths)
\* of its gap to goal: it lies between m and goal and not on goal unless it
\* was there
MovedByFraction(m, mNext, goal, a) ==
  /\ ~IsNaN(m) /\ ~IsNaN(mNext) /\ ~IsNaN(goal)
  /\ mNext = m + TruncDiv((goal - m) * a, 100)
  /\ \/ m <= mNext /\ mNext <= goal
     \/ goal <= mNext /\ mNext <= m
  /\ m # goal => mNext # goal

\* C27: on every tick, whatever gesture or command preceded it, each channel
\* of the rendered transform (position x, y, z, rotation x, y, scale) ends
\* between its previous value and the tick's target plus offset, having
\* moved the fixed fraction of the gap (0.15; 0.25 for y and scale), never
\* onto or past the target.
C27_EveryTickInterpolates ==
  [][last'.kind = "tick"
     => /\ MovedByFraction(meshPosition.x, meshPosition'.x, targetPos'.x, 15)
        /\ MovedByFraction(meshPosition.y, meshPosition'.y,
                           FAdd(targetPos'.y, frameOut'.currentBounceY), 25)
        /\ MovedByFraction(meshPosition.z, meshPosition'.z, targetPos'.z, 15)
        /\ MovedByFraction(meshRotation.x, meshRotation'.x, targetRot'.x, 15)
        /\ MovedByFraction(meshRotation.y, meshRotation'.y, targetRot'.y, 15)
        /\ MovedByFraction(meshScale, meshScale',
                           FAdd(targetScale', frameOut'.currentBounceScale),
                           25)
    ]_vars

\* ------------------------------------------------------------------------
\* Claims on input that has stopped (SpecGesture)
\* ------------------------------------------------------------------------
\* C28: once hand frames and voice commands have stopped arriving, the
\* render tick still running and the rotation velocity 0, TargetState stops
\* changing: a tick that directly follows a tick, nothing having arrived in
\* between, leaves the target position, rotation and scale as they were
\* (so that the bounce can end and the rendered transform can converge to
\* that last TargetState).
C28_QuietTicksKeepTarget ==
  [][(IsTick /\ last.kind = "tick" /\ voiceTransform.rotationVelocity = 0)
     => UNCHANGED <<targetPos, targetRot, targetScale>>
    ]_vars

\* ------------------------------------------------------------------------
\* Claims on the atomicity of a recenter (SpecAtomic)
\* ------------------------------------------------------------------------
\* a recenter is committed and its effects have not run: the props hold the
\* reset velocity while a target ref still holds its earlier value
PartlyRecentered ==
  /\ file # 0
  /\ voiceTransform.resetTrigger # effectDeps.resetTrigger
  /\ voiceTransform.rotationVelocity = 0
  /\ effectDeps.rotationVelocity # 0
  /\ ~TargetIsDefault

\* C29: a voice recenter is atomic with respect to the render tick: no tick
\* runs on a state in which the command has reset some of position,
\* rotation, scale, color override and rotation velocity while the others
\* still hold their values from before the command
C29_RecenterAtomicForTicks ==
  [][last'.kind = "tick" => ~PartlyRecentered]_vars

\* ------------------------------------------------------------------------
\* Claims on the start of a pointing pose (SpecPointing)
\* ------------------------------------------------------------------------
\* C30: pointing rotation is applied only as the difference between the
\* angles of two consecutive pointing ticks: on the first tick of a pointing
\* pose, the previous processed tick (if any) not having been a pointing
\* one, the pointing logic leaves the target rotation as it was.
C30_FirstPointingTickKeepsTarget ==
  [][(IsTick /\ PointingPose(HandDataProp) /\ ~frameOut.pointed)
     => targetRot' = [targetRot EXCEPT
                        !.y = @ + voiceTransform.rotationVelocity]
    ]_vars

\* ------------------------------------------------------------------------
\* Claims on a frame consumed twice (SpecGesture)
\* ------------------------------------------------------------------------
\* C31: consuming the same hand frame on consecutive ticks is idempotent on
\* TargetState: with rotation velocity 0, the second of two consecutive
\* ticks that process one unchanged frame with a hand in it leaves the
\* target position, rotation and scale as the first left them, whatever
\* gesture the frame encodes.
C31_SameFrameIdempotent ==
  [][(/\ IsTick /\ last.kind = "tick"
      /\ HasHand(HandDataProp)
      /\ voiceTransform.rotationVelocity = 0)
     => /\ targetPos' = targetPos
        /\ targetRot' = targetRot
        /\ targetScale' = targetScale
    ]_vars

\* ------------------------------------------------------------------------
\* Claims on the live session (SpecVoice)
\* ------------------------------------------------------------------------
\* C32: after any sequence of voice activations and deactivations, a
\* deactivation while a connection attempt is pending included, whenever
\* voice input is inactive and no connection attempt is pending no live
\* session is open, and at most one session is open at any time.
C32_NoSessionWhileInactive ==
  /\ (~isVoiceActive /\ pendingConnects = 0) => openSessions = 0
  /\ openSessions <= 1

\* ------------------------------------------------------------------------
\* Claims on tracking switched off and on again (SpecRetrack)
\* ------------------------------------------------------------------------
\* C33: after hand tracking is deactivated and later reactivated no hand
\* frame delivered before the reactivation is applied to TargetState: a tick
\* that runs right after the activation, before any frame has been
\* delivered, applies no gesture (the target moves by the spin only).
C33_NoStaleFrameAfterReactivation ==
  [][(IsTick /\ last.kind = "toggleTracker" /\ isTrackerActive)
     => /\ targetPos' = targetPos
        /\ targetRot' = [targetRot EXCEPT
                           !.y = @ + voiceTransform.rotationVelocity]
        /\ targetScale' = targetScale
    ]_vars

\* ------------------------------------------------------------------------
\* Claims on the insight requests (SpecInsight)
\* ------------------------------------------------------------------------
\* C34: when insight requests overlap, once every outstanding request has
\* completed the displayed insight is the response to the request issued
\* last, and the loading flag is true exactly while at least one request is
\* outstanding.
C34_LatestInsightShown ==
  /\ (outstanding = {} /\ issued > 0) => insight.req = issued
  /\ isLoadingInsight <=> (outstanding # {})

\* ------------------------------------------------------------------------
\* Claims on the start of the hand tracker (SpecInit)
\* ------------------------------------------------------------------------
\* C35: hand-tracker initialization always terminates: while the vision
\* modules are missing it schedules a retry at most 60 times, every retry
\* that is scheduled uses up one of the 60 attempts, and the retry after
\* the 60th reports an error and schedules nothing; a retry that ends the
\* retrying has created the tracker or reported the error; and after a
\* deactivation no retry is pending, so that no retry fires and no tracker
\* or camera exists while tracking is inactive.
C35_InitTerminates ==
  [][/\ attempts' \in 0..MaxAttempts
     /\ retryPending' => isTrackerActive'
     /\ handsRef' => isTrackerActive'
     /\ (last'.kind = "retry" /\ retryPending')
          => (attempts' = attempts + 1 /\ ~handsRef' /\ ~modulesLoaded)
     /\ (last'.kind = "retry" /\ ~retryPending')
          => \/ handsRef' /\ modulesLoaded
             \/ trackerError' /\ attempts = MaxAttempts /\ ~handsRef'
     /\ (last'.kind = "retry" /\ ~modulesLoaded /\ attempts = MaxAttempts)
          => (trackerError' /\ ~retryPending')
    ]_vars

\* the 60th retry has fired without the modules: the error is reported and
\* nothing is scheduled
C35_Witness ==
  /\ last.kind = "retry"
  /\ isTrackerActive /\ ~modulesLoaded
  /\ attempts = MaxAttempts
  /\ trackerError /\ ~retryPending /\ ~handsRef

====
